---- MODULE Spec2Model ----
(***************************************************************************)
(* Model of the Chest contract (src/lib.rs): a collateral-backed fungible  *)
(* token ledger.  Storage is the contract struct; every #[ink(message)]    *)
(* is one action.  A message runs on a working copy of the storage; when   *)
(* an assert! or an arithmetic check panics the message traps and the      *)
(* working copy is dropped, otherwise it is written back.                  *)
(*                                                                         *)
(* u128 arithmetic is modelled at a reduced width (Width bits) and is      *)
(* overflow-checked, as in the test profile and in contract builds: an     *)
(* overflowing +, - or * panics.                                           *)
(***************************************************************************)
EXTENDS Integers, FiniteSets, Sequences, TLC

\* ---------------------------------------------------------------- bounds
Width == 10
MaxCalls == 3
MaxTestCalls == 4

MaxValue == 2^Width - 1

\* ---------------------------------------------------------------- inputs
Accounts == {"alice", "bob", "charlie"}
Callers == {"alice", "bob"}
Amounts == {0, 1, 2, 4, MaxValue}
Prices == {0, 1, 100, 150}

\* The divisor of the collateral ratio (price per 100 units).
Percent == 100

\* An absent key of a StorageHashMap.
None == -1

\* ---------------------------------------------------------------- outcomes
Ok == "ok"
NotEnoughAllowance == "Not enough allowance"
NoBalance == "Sender does not have a balance"
PoolEmpty == "Collateral pool should be greater than 0"
NotEnoughBalanceToRedeem == "Not enough balance to redeem"
NotEnoughCollateral == "Not enough collateral in the pool"
MulOverflow == "attempt to multiply with overflow"
AddOverflow == "attempt to add with overflow"
SubOverflow == "attempt to subtract with overflow"

VARIABLES total_supply, balances, allowed, collateral_pool, collateral_price,
          op, outcome, calls_left, log

vars == <<total_supply, balances, allowed, collateral_pool, collateral_price,
          op, outcome, calls_left, log>>

\* The mutable fields of the storage struct, as one value.
Chest == [total_supply |-> total_supply, balances |-> balances,
          allowed |-> allowed, collateral_pool |-> collateral_pool]

\* StorageHashMap::entry(k).or_insert(0)
or_insert_0(m, k) == IF m[k] = None THEN [m EXCEPT ![k] = 0] ELSE m

\* A message that ran to its end, and one that panicked part-way (self is the
\* working copy at that point).
Done(self) == [self |-> self, outcome |-> Ok]
Panic(self, msg) == [self |-> self, outcome |-> msg]

balance_of(self, owner) ==
    IF self.balances[owner] = None THEN 0 ELSE self.balances[owner]

allowance(self, owner, spender) ==
    IF self.allowed[<<owner, spender>>] = None THEN 0
    ELSE self.allowed[<<owner, spender>>]

\* approve that adds the amount to the stored allowance.
approve_Add(self, sender, spender, amount) ==
    Done([self EXCEPT !.allowed[<<sender, spender>>] =
                          allowance(self, sender, spender) + amount])

approve(self, sender, spender, amount) ==
    Done([self EXCEPT !.allowed[<<sender, spender>>] = amount])

\* transfer_from_to that credits to without debiting from.
transfer_from_to_NoDebit(self, from, to, amount) ==
    IF self.balances[from] = None THEN Panic(self, NoBalance)
    ELSE IF ~(self.balances[from] >= amount) THEN Panic(self, NoBalance)
    ELSE LET s2 == [self EXCEPT !.balances = or_insert_0(self.balances, to)]
         IN IF s2.balances[to] + amount > MaxValue THEN Panic(s2, AddOverflow)
            ELSE Done([s2 EXCEPT !.balances[to] = @ + amount])

transfer_from_to(self, from, to, amount) ==
    IF self.balances[from] = None THEN Panic(self, NoBalance)
    ELSE LET balance == self.balances[from] IN
      IF ~(balance >= amount) THEN Panic(self, NoBalance)
      ELSE LET s1 == [self EXCEPT !.balances[from] = balance - amount]
               s2 == [s1 EXCEPT !.balances = or_insert_0(s1.balances, to)]
               to_balance == s2.balances[to]
           IN IF to_balance + amount > MaxValue THEN Panic(s2, AddOverflow)
              ELSE Done([s2 EXCEPT !.balances[to] = to_balance + amount])

transfer(self, sender, to, amount) ==
    transfer_from_to(self, sender, to, amount)

\* transfer_from reading and writing the entry keyed (caller, from).
transfer_from_SenderKey(self, sender, from, to, amount) ==
    LET allowance_ == IF self.allowed[<<sender, from>>] = None THEN 0
                      ELSE self.allowed[<<sender, from>>]
    IN IF ~(allowance_ >= amount) THEN Panic(self, NotEnoughAllowance)
       ELSE transfer_from_to(
              [self EXCEPT !.allowed[<<sender, from>>] = allowance_ - amount],
              from, to, amount)

\* transfer_from that looks at the balance of from before the allowance.
transfer_from_BalanceFirst(self, sender, from, to, amount) ==
    LET allowance_ == IF self.allowed[<<from, sender>>] = None THEN 0
                      ELSE self.allowed[<<from, sender>>]
    IN IF self.balances[from] = None \/ self.balances[from] < amount
       THEN Panic(self, NoBalance)
       ELSE IF ~(allowance_ >= amount) THEN Panic(self, NotEnoughAllowance)
       ELSE transfer_from_to(
              [self EXCEPT !.allowed[<<from, sender>>] = allowance_ - amount],
              from, to, amount)

transfer_from(self, sender, from, to, amount) ==
    LET allowance_ == IF self.allowed[<<from, sender>>] = None THEN 0
                      ELSE self.allowed[<<from, sender>>]
    IN IF ~(allowance_ >= amount) THEN Panic(self, NotEnoughAllowance)
       ELSE transfer_from_to(
              [self EXCEPT !.allowed[<<from, sender>>] = allowance_ - amount],
              from, to, amount)

\* mint without the total_supply update.
mint_NoSupply(self, sender, amount) ==
    IF amount * collateral_price > MaxValue THEN Panic(self, MulOverflow)
    ELSE LET collateral_amount == (amount * collateral_price) \div Percent
             s1 == [self EXCEPT !.collateral_pool = @ + collateral_amount]
             s2 == [s1 EXCEPT !.balances = or_insert_0(s1.balances, sender)]
         IN IF s1.collateral_pool > MaxValue THEN Panic(self, AddOverflow)
            ELSE IF ~(s1.collateral_pool > 0) THEN Panic(s1, PoolEmpty)
            ELSE IF s2.balances[sender] + amount > MaxValue
                 THEN Panic(s2, AddOverflow)
            ELSE Done([s2 EXCEPT !.balances[sender] = @ + amount])

\* mint that asserts on the collateral of this call, not on the pool.
mint_CollateralPositive(self, sender, amount) ==
    IF amount * collateral_price > MaxValue THEN Panic(self, MulOverflow)
    ELSE LET collateral_amount == (amount * collateral_price) \div Percent
             s1 == [self EXCEPT !.collateral_pool = @ + collateral_amount]
             s2 == [s1 EXCEPT !.balances = or_insert_0(s1.balances, sender)]
         IN IF s1.collateral_pool > MaxValue THEN Panic(self, AddOverflow)
            ELSE IF ~(collateral_amount > 0) THEN Panic(s1, PoolEmpty)
            ELSE IF s2.balances[sender] + amount > MaxValue
                 THEN Panic(s2, AddOverflow)
            ELSE IF s2.total_supply + amount > MaxValue
                 THEN Panic(s2, AddOverflow)
            ELSE Done([s2 EXCEPT !.balances[sender] = @ + amount,
                                 !.total_supply = @ + amount])

\* mint whose total_supply wraps instead of panicking.
mint_WrappingSupply(self, sender, amount) ==
    IF amount * collateral_price > MaxValue THEN Panic(self, MulOverflow)
    ELSE LET collateral_amount == (amount * collateral_price) \div Percent
             s1 == [self EXCEPT !.collateral_pool = @ + collateral_amount]
             s2 == [s1 EXCEPT !.balances = or_insert_0(s1.balances, sender)]
         IN IF s1.collateral_pool > MaxValue THEN Panic(self, AddOverflow)
            ELSE IF ~(s1.collateral_pool > 0) THEN Panic(s1, PoolEmpty)
            ELSE IF s2.balances[sender] + amount > MaxValue
                 THEN Panic(s2, AddOverflow)
            ELSE Done([s2 EXCEPT !.balances[sender] = @ + amount,
                                 !.total_supply = (@ + amount) % (MaxValue + 1)])

\* mint that accepts an empty pool (asserts pool >= 0).
mint_PoolNonNegative(self, sender, amount) ==
    IF amount * collateral_price > MaxValue THEN Panic(self, MulOverflow)
    ELSE LET collateral_amount == (amount * collateral_price) \div Percent
             s1 == [self EXCEPT !.collateral_pool = @ + collateral_amount]
             s2 == [s1 EXCEPT !.balances = or_insert_0(s1.balances, sender)]
         IN IF s1.collateral_pool > MaxValue THEN Panic(self, AddOverflow)
            ELSE IF ~(s1.collateral_pool >= 0) THEN Panic(s1, PoolEmpty)
            ELSE IF s2.balances[sender] + amount > MaxValue
                 THEN Panic(s2, AddOverflow)
            ELSE IF s2.total_supply + amount > MaxValue
                 THEN Panic(s2, AddOverflow)
            ELSE Done([s2 EXCEPT !.balances[sender] = @ + amount,
                                 !.total_supply = @ + amount])

\* mint that divides by 100 before it multiplies by the price.
mint_DivFirst(self, sender, amount) ==
    IF (amount \div Percent) * collateral_price > MaxValue
    THEN Panic(self, MulOverflow)
    ELSE LET collateral_amount == (amount \div Percent) * collateral_price
             s1 == [self EXCEPT !.collateral_pool = @ + collateral_amount]
             s2 == [s1 EXCEPT !.balances = or_insert_0(s1.balances, sender)]
         IN IF s1.collateral_pool > MaxValue THEN Panic(self, AddOverflow)
            ELSE IF ~(s1.collateral_pool > 0) THEN Panic(s1, PoolEmpty)
            ELSE IF s2.balances[sender] + amount > MaxValue
                 THEN Panic(s2, AddOverflow)
            ELSE IF s2.total_supply + amount > MaxValue
                 THEN Panic(s2, AddOverflow)
            ELSE Done([s2 EXCEPT !.balances[sender] = @ + amount,
                                 !.total_supply = @ + amount])

mint(self, sender, amount) ==
    IF amount * collateral_price > MaxValue THEN Panic(self, MulOverflow)
    ELSE LET collateral_amount == (amount * collateral_price) \div Percent IN
      IF self.collateral_pool + collateral_amount > MaxValue
      THEN Panic(self, AddOverflow)
      ELSE LET s1 == [self EXCEPT !.collateral_pool = @ + collateral_amount] IN
        IF ~(s1.collateral_pool > 0) THEN Panic(s1, PoolEmpty)
        ELSE LET s2 == [s1 EXCEPT !.balances = or_insert_0(s1.balances, sender)] IN
          IF s2.balances[sender] + amount > MaxValue THEN Panic(s2, AddOverflow)
          ELSE LET s3 == [s2 EXCEPT !.balances[sender] = @ + amount] IN
            IF s3.total_supply + amount > MaxValue THEN Panic(s3, AddOverflow)
            ELSE Done([s3 EXCEPT !.total_supply = @ + amount])

\* redeem that checks the pool before the balance.
redeem_CollateralFirst(self, sender, amount) ==
    LET s1 == [self EXCEPT !.balances = or_insert_0(self.balances, sender)]
        balance == s1.balances[sender]
    IN IF amount * collateral_price > MaxValue THEN Panic(s1, MulOverflow)
       ELSE LET collateral_amount == (amount * collateral_price) \div Percent IN
         IF ~(s1.collateral_pool >= collateral_amount)
         THEN Panic(s1, NotEnoughCollateral)
         ELSE IF ~(balance >= amount) THEN Panic(s1, NotEnoughBalanceToRedeem)
         ELSE Done([s1 EXCEPT !.balances[sender] = balance - amount,
                              !.total_supply = @ - amount,
                              !.collateral_pool = @ - collateral_amount])

\* redeem that releases the collateral rounded up.
redeem_RoundUp(self, sender, amount) ==
    LET s1 == [self EXCEPT !.balances = or_insert_0(self.balances, sender)]
        balance == s1.balances[sender]
    IN IF ~(balance >= amount) THEN Panic(s1, NotEnoughBalanceToRedeem)
       ELSE IF amount * collateral_price > MaxValue THEN Panic(s1, MulOverflow)
       ELSE LET collateral_amount ==
                  (amount * collateral_price + Percent - 1) \div Percent IN
         IF ~(s1.collateral_pool >= collateral_amount)
         THEN Panic(s1, NotEnoughCollateral)
         ELSE Done([s1 EXCEPT !.balances[sender] = balance - amount,
                              !.total_supply = @ - amount,
                              !.collateral_pool = @ - collateral_amount])

redeem(self, sender, amount) ==
    LET s1 == [self EXCEPT !.balances = or_insert_0(self.balances, sender)]
        balance == s1.balances[sender]
    IN IF ~(balance >= amount) THEN Panic(s1, NotEnoughBalanceToRedeem)
       ELSE IF amount * collateral_price > MaxValue THEN Panic(s1, MulOverflow)
       ELSE LET collateral_amount == (amount * collateral_price) \div Percent IN
         IF ~(s1.collateral_pool >= collateral_amount)
         THEN Panic(s1, NotEnoughCollateral)
         ELSE LET s2 == [s1 EXCEPT !.balances[sender] = balance - amount] IN
           IF s2.total_supply < amount THEN Panic(s2, SubOverflow)
           ELSE Done([s2 EXCEPT !.total_supply = @ - amount,
                                !.collateral_pool = @ - collateral_amount])

\* A panic that leaves the working copy in storage.
Committed_KeepPartial(before, r) == r.self

\* The storage a message leaves behind: the working copy when it returned,
\* the storage as it was before the call when it panicked.
Committed(before, r) == IF r.outcome = Ok THEN r.self ELSE before

\* One message call: run it, commit or revert, report the outcome.
Call(name, r) ==
    /\ calls_left > 0
    /\ calls_left' = calls_left - 1
    /\ op' = name
    /\ outcome' = r.outcome
    /\ total_supply' = Committed(Chest, r).total_supply
    /\ balances' = Committed(Chest, r).balances
    /\ allowed' = Committed(Chest, r).allowed
    /\ collateral_pool' = Committed(Chest, r).collateral_pool
    /\ UNCHANGED collateral_price

\* Chest::new: empty maps, zero supply, zero pool, the given price.
New(price) ==
    /\ total_supply = 0
    /\ balances = [a \in Accounts |-> None]
    /\ allowed = [p \in Accounts \X Accounts |-> None]
    /\ collateral_pool = 0
    /\ collateral_price = price
    /\ op = "new"
    /\ outcome = Ok
    /\ log = <<>>

Init == \E price \in Prices : New(price) /\ calls_left = MaxCalls

Approve(sender, spender, amount) ==
    Call("approve", approve(Chest, sender, spender, amount))

Transfer(sender, to, amount) ==
    Call("transfer", transfer(Chest, sender, to, amount))

TransferFrom(sender, from, to, amount) ==
    Call("transfer_from", transfer_from(Chest, sender, from, to, amount))

Mint(sender, amount) ==
    Call("mint", mint(Chest, sender, amount))

Redeem(sender, amount) ==
    Call("redeem", redeem(Chest, sender, amount))

DoApprove == \E c \in Callers, s \in Accounts, a \in Amounts : Approve(c, s, a)
DoTransfer == \E c \in Callers, t \in Accounts, a \in Amounts : Transfer(c, t, a)
DoTransferFrom ==
    \E c \in Callers, f \in Accounts, t \in Accounts, a \in Amounts :
        TransferFrom(c, f, t, a)
DoMint == \E c \in Callers, a \in Amounts : Mint(c, a)
DoRedeem == \E c \in Callers, a \in Amounts : Redeem(c, a)

Next ==
    \/ DoApprove /\ UNCHANGED log
    \/ DoTransfer /\ UNCHANGED log
    \/ DoTransferFrom /\ UNCHANGED log
    \/ DoMint /\ UNCHANGED log
    \/ DoRedeem /\ UNCHANGED log

Spec == Init /\ [][Next]_vars

\* The ledger as the unit tests drive it: Chest::new(.., 100), every call
\* made by the test environment's default caller alice (transfer_from also
\* by bob), with the amounts of the tests (amount, amount / 2, amount / 4,
\* amount * 2) for amount = 4.  log keeps the calls made so far.
TestPrice == 100
TestAmounts == {1, 2, 4, 8}
TestInit == New(TestPrice) /\ calls_left = MaxTestCalls

Logged(name, amount) == log' = Append(log, <<name, amount, outcome'>>)

TestNext ==
    \/ \E s \in Accounts, a \in TestAmounts :
         Approve("alice", s, a) /\ Logged("approve", a)
    \/ \E t \in Accounts, a \in TestAmounts :
         Transfer("alice", t, a) /\ Logged("transfer", a)
    \/ \E c \in Callers, f \in Accounts, t \in Accounts, a \in TestAmounts :
         TransferFrom(c, f, t, a) /\ Logged("transfer_from", a)
    \/ \E a \in TestAmounts : Mint("alice", a) /\ Logged("mint", a)
    \/ \E a \in TestAmounts : Redeem("alice", a) /\ Logged("redeem", a)

TestSpec == TestInit /\ [][TestNext]_vars

\* The storage after the step.
ChestNext == [total_supply |-> total_supply', balances |-> balances',
              allowed |-> allowed', collateral_pool |-> collateral_pool']

TypeOK ==
    /\ total_supply \in 0..MaxValue
    /\ collateral_pool \in 0..MaxValue
    /\ \A a \in Accounts : balances[a] \in {None} \cup 0..MaxValue
    /\ \A p \in Accounts \X Accounts : allowed[p] \in {None} \cup 0..MaxValue

\* ---------------------------------------------------------------- claims
RECURSIVE SumBalances(_, _)
SumBalances(self, accts) ==
    IF accts = {} THEN 0
    ELSE LET a == CHOOSE x \in accts : TRUE
         IN balance_of(self, a) + SumBalances(self, accts \ {a})

\* floor(amount * collateral_price / 100) in unbounded integers.
RequiredCollateral(amount) == (amount * collateral_price) \div Percent

\* C1: in every reachable state total_supply equals the sum of balance_of(a)
\* over all accounts a.
C1_SupplyIsSumOfBalances == total_supply = SumBalances(Chest, Accounts)

\* At price 150 a supply of 4 (pool 6) was held by Alice and Bob, and Alice
\* has redeemed 1 (pool 5): the supply of 3 is spread over two accounts.
C1_Witness ==
    /\ op = "redeem" /\ outcome = Ok
    /\ collateral_price = 150 /\ collateral_pool = 5
    /\ balance_of(Chest, "alice") = 1 /\ balance_of(Chest, "bob") = 2
    /\ total_supply = 3

\* Alice has minted A, transferred A/2 to Bob and approved Bob for A/4 on a
\* fresh ledger with collateral_price = 100 (tests::transfer_works).
TransferWorksSetup(A) ==
    /\ collateral_price = 100
    /\ log = << <<"mint", A, Ok>>, <<"transfer", A \div 2, Ok>>,
                <<"approve", A \div 4, Ok>> >>
    /\ balances = [a \in Accounts |->
                     IF a \in {"alice", "bob"} THEN A \div 2 ELSE None]
    /\ allowed = [p \in Accounts \X Accounts |->
                     IF p = <<"alice", "bob">> THEN A \div 4 ELSE None]
    /\ total_supply = A
    /\ collateral_pool = A

\* C2: for every amount A divisible by 4, with collateral_price = 100, after
\* Alice mints A, transfers A/2 to Bob and approves Bob for A/4, the next
\* call transfer_from(Bob, Charlie, A/4), by Alice or by Bob, succeeds and
\* leaves balance_of(Bob) = A/4 and balance_of(Charlie) = A/4.
C2_TransferWorks ==
    [][\A A \in TestAmounts : \A c \in {"alice", "bob"} :
         (/\ A % 4 = 0
          /\ TransferWorksSetup(A)
          /\ TransferFrom(c, "bob", "charlie", A \div 4))
         => /\ outcome' = Ok
            /\ balance_of(ChestNext, "bob") = A \div 4
            /\ balance_of(ChestNext, "charlie") = A \div 4]_vars

MintedAndRedeemed(c, A) ==
    /\ collateral_price = 100
    /\ log = << <<"mint", A, Ok>>, <<"redeem", A, Ok>> >>
    /\ balances = [a \in Accounts |-> IF a = c THEN 0 ELSE None]
    /\ allowed = [p \in Accounts \X Accounts |-> None]
    /\ total_supply = 0
    /\ collateral_pool = 0

\* C4: for every amount A > 0 with collateral_price = 100, after a caller
\* mints A and then redeems A, a second redeem(A) by the same caller fails
\* with "Not enough collateral in the pool".
C4_SecondRedeemNotEnoughCollateral ==
    [][\A c \in Callers, A \in TestAmounts :
         (/\ A > 0
          /\ MintedAndRedeemed(c, A)
          /\ op' = "redeem"
          /\ Redeem(c, A))
         => outcome' = NotEnoughCollateral]_vars

C8_TransferDependsOnBalanceOnly ==
    [][\A c \in Callers, t \in Accounts, a \in Amounts :
         (op' = "transfer" /\ Transfer(c, t, a))
         => /\ outcome' = Ok <=> balance_of(Chest, c) >= a
            /\ outcome' = NoBalance <=> balance_of(Chest, c) < a]_vars

\* C9: approve, transfer and transfer_from leave collateral_pool and
\* total_supply unchanged; a successful mint(amount) raises the pool by
\* floor(amount * collateral_price / 100), a successful redeem(amount)
\* lowers it by the same; the pool never goes below 0.
C9_PoolChangesByExactAmount ==
    [][/\ op' \in {"approve", "transfer", "transfer_from"}
            => UNCHANGED <<collateral_pool, total_supply>>
       /\ \A c \in Callers, a \in Amounts :
            /\ (op' = "mint" /\ outcome' = Ok /\ Mint(c, a))
                 => collateral_pool' = collateral_pool + RequiredCollateral(a)
            /\ (op' = "redeem" /\ outcome' = Ok /\ Redeem(c, a))
                 => collateral_pool' = collateral_pool - RequiredCollateral(a)
       /\ collateral_pool' >= 0]_vars

\* At price 150 a redeem of 1 has released floor(1.5) = 1 of the 3 that a
\* mint of 2 deposited.
C9_Witness ==
    /\ op = "redeem" /\ outcome = Ok
    /\ collateral_price = 150
    /\ total_supply = 1
    /\ collateral_pool = 2

\* C10: mint is rejected with "Collateral pool should be greater than 0"
\* exactly when the pool plus floor(amount * collateral_price / 100) is 0;
\* after every successful mint collateral_pool > 0.
C10_MintRejectedIffPoolStaysEmpty ==
    [][\A c \in Callers, a \in Amounts :
         (op' = "mint" /\ Mint(c, a))
         => /\ outcome' = PoolEmpty
                 <=> collateral_pool + RequiredCollateral(a) = 0
            /\ outcome' = Ok => collateral_pool' > 0]_vars

\* A mint was rejected at a price above 0: its collateral truncated to 0 (or
\* its amount was 0) and the pool was empty.
C10_Witness ==
    /\ op = "mint" /\ outcome = PoolEmpty
    /\ collateral_price = 1
    /\ collateral_pool = 0

\* C11: approve(spender, amount) never fails and sets allowance(caller,
\* spender) to exactly amount, whatever was stored; a second identical
\* approve leaves the same storage; no other allowance entry, no balance,
\* and neither total_supply nor collateral_pool changes.
C11_ApproveOverwrites ==
    [][\A c \in Callers, s \in Accounts, a \in Amounts :
         (op' = "approve" /\ Approve(c, s, a))
         => /\ outcome' = Ok
            /\ allowance(ChestNext, c, s) = a
            /\ approve(ChestNext, c, s, a) = Done(ChestNext)
            /\ \A p \in Accounts \X Accounts :
                 p # <<c, s>> => allowed'[p] = allowed[p]
            /\ UNCHANGED <<balances, total_supply, collateral_pool>>]_vars

\* Alice holds 4 and her allowance for Bob, the only entry, has been set
\* to 1 by an approve.
C11_Witness ==
    /\ op = "approve" /\ outcome = Ok
    /\ balance_of(Chest, "alice") = 4
    /\ allowed = [p \in Accounts \X Accounts |->
                     IF p = <<"alice", "bob">> THEN 1 ELSE None]

\* C12: when transfer(B, amount) by A succeeds, the transfer(A, amount) by B
\* that follows it succeeds too and restores balance_of(A) and balance_of(B)
\* to their values before the first transfer; total_supply stays the same
\* throughout.
C12_TransferRoundTrip ==
    [][\A A \in Callers, B \in Accounts, a \in Amounts :
         (op' = "transfer" /\ outcome' = Ok /\ Transfer(A, B, a))
         => LET back == transfer(ChestNext, B, A, a)
            IN /\ back.outcome = Ok
               /\ balance_of(back.self, A) = balance_of(Chest, A)
               /\ balance_of(back.self, B) = balance_of(Chest, B)
               /\ total_supply' = total_supply
               /\ back.self.total_supply = total_supply]_vars

\* Alice has moved 1 of her 4 to Bob, who can still send it back.
C12_Witness ==
    /\ op = "transfer" /\ outcome = Ok
    /\ calls_left > 0
    /\ balances = [a \in Accounts |->
                     IF a = "alice" THEN 3 ELSE IF a = "bob" THEN 1 ELSE None]
    /\ total_supply = 4

\* C13: with collateral_price = 100 the pool equals the supply in every
\* reachable state, through any interleaving of mints, redeems and
\* transfers by several accounts.
C13_PoolEqualsSupplyAtPar ==
    collateral_price = 100 => collateral_pool = total_supply

\* At price 100 two accounts hold a supply of 3 after a redeem, and the pool
\* is 3.
C13_Witness ==
    /\ collateral_price = 100
    /\ op = "redeem" /\ outcome = Ok
    /\ balance_of(Chest, "alice") = 1 /\ balance_of(Chest, "bob") = 2
    /\ total_supply = 3 /\ collateral_pool = 3

\* C14: a successful mint(amount) or redeem(amount) by caller c changes
\* balance_of(c) and total_supply by +amount or -amount and leaves the
\* balance of every other account and every allowance entry unchanged.
C14_MintRedeemSelfOnly ==
    [][\A c \in Callers, a \in Amounts :
         /\ (op' = "mint" /\ outcome' = Ok /\ Mint(c, a))
              => /\ balance_of(ChestNext, c) = balance_of(Chest, c) + a
                 /\ total_supply' = total_supply + a
                 /\ \A o \in Accounts \ {c} : balances'[o] = balances[o]
                 /\ allowed' = allowed
         /\ (op' = "redeem" /\ outcome' = Ok /\ Redeem(c, a))
              => /\ balance_of(ChestNext, c) = balance_of(Chest, c) - a
                 /\ total_supply' = total_supply - a
                 /\ \A o \in Accounts \ {c} : balances'[o] = balances[o]
                 /\ allowed' = allowed]_vars

\* A mint has succeeded while another account holds a balance and an
\* allowance is stored.
C14_Witness ==
    /\ op = "mint" /\ outcome = Ok
    /\ balance_of(Chest, "alice") = 4 /\ balance_of(Chest, "bob") = 2
    /\ total_supply = 6
    /\ allowed[<<"alice", "bob">>] = 1

\* C15: for every account a with balance_of(a) >= amount, transfer(a,
\* amount) by a, and transfer_from(a, a, amount) by a with sufficient
\* allowance, succeeds and leaves every balance and total_supply unchanged.
C15_SelfTransferSucceeds ==
    [][\A a \in Callers, amt \in Amounts :
         (/\ balance_of(Chest, a) >= amt
          /\ \/ op' = "transfer" /\ Transfer(a, a, amt)
             \/ /\ op' = "transfer_from"
                /\ allowance(Chest, a, a) >= amt
                /\ TransferFrom(a, a, a, amt))
         => /\ outcome' = Ok
            /\ \A o \in Accounts :
                 balance_of(ChestNext, o) = balance_of(Chest, o)
            /\ total_supply' = total_supply]_vars

\* C16: for every collateral_price, in every reachable state,
\* collateral_pool >= floor(total_supply * collateral_price / 100).
C16_PoolCoversSupply ==
    collateral_pool >= (total_supply * collateral_price) \div Percent

\* C17: whenever pool + floor(amount * collateral_price / 100),
\* balance_of(caller) + amount and total_supply + amount fit the amount type
\* and the new pool is > 0, mint succeeds and stores exactly those values.
C17_MintIsExactWhenRepresentable ==
    [][\A c \in Callers, a \in Amounts :
         (/\ op' = "mint" /\ Mint(c, a)
          /\ collateral_pool + RequiredCollateral(a) <= MaxValue
          /\ collateral_pool + RequiredCollateral(a) > 0
          /\ balance_of(Chest, c) + a <= MaxValue
          /\ total_supply + a <= MaxValue)
         => /\ outcome' = Ok
            /\ collateral_pool' = collateral_pool + RequiredCollateral(a)
            /\ balance_of(ChestNext, c) = balance_of(Chest, c) + a
            /\ total_supply' = total_supply + a]_vars

\* C18: in every reachable state, whenever the debit of from succeeds in a
\* transfer or transfer_from, the balance of to after the credit is at most
\* total_supply and so fits the amount type: no transfer ends with an
\* overflow.  (The amounts tried from a state include the whole balance of
\* from, the largest the debit lets through.)
C18_TransferCreditNeverOverflows ==
    /\ op \in {"transfer", "transfer_from"} => outcome # AddOverflow
    /\ \A f \in Accounts, t \in Accounts :
         \A a \in Amounts \cup {balance_of(Chest, f)} :
           LET r == transfer_from_to(Chest, f, t, a)
           IN /\ r.outcome # AddOverflow
              /\ r.outcome = Ok
                   => /\ balance_of(r.self, t) <= total_supply
                      /\ balance_of(r.self, t) <= MaxValue

\* At price 1 Alice minted the largest amount and transferred all of it to
\* Bob: the credit reached the top of the amount type.
C18_Witness ==
    /\ op = "transfer" /\ outcome = Ok
    /\ balance_of(Chest, "bob") = MaxValue
    /\ balance_of(Chest, "alice") = 0
    /\ total_supply = MaxValue

\* C19: on a ledger constructed with collateral_price = 0 every mint fails
\* the pool > 0 check, and total_supply, collateral_pool and every balance
\* stay 0.
C19_ZeroPriceNeverIssues ==
    [][collateral_price = 0
         => /\ \A c \in Callers, a \in Amounts :
                 (op' = "mint" /\ Mint(c, a)) => outcome' = PoolEmpty
            /\ total_supply' = 0
            /\ collateral_pool' = 0
            /\ \A o \in Accounts : balance_of(ChestNext, o) = 0]_vars

\* At price 0 a mint has been rejected after two earlier calls.
C19_Witness ==
    /\ collateral_price = 0
    /\ op = "mint" /\ outcome = PoolEmpty
    /\ calls_left = 0
    /\ total_supply = 0 /\ collateral_pool = 0

====
